---- MODULE Spec2Model ----
(***************************************************************************)
(* The open-handle manager of mediafire-fuse (src/fuse/operations.c): the  *)
(* VFS callbacks getattr, open, create and release, run by the threads of  *)
(* the FUSE host over the shared context (the two string vectors           *)
(* sv_readonlyfiles and sv_writefiles, the folder tree and the remote).    *)
(* A callback is one step per stretch of code between two blocking calls   *)
(* into the remote, so callbacks of different threads interleave there.    *)
(***************************************************************************)
EXTENDS Integers, FiniteSets, Sequences, TLC

\* ------------------------------------------------------------ bounds
\* number of struct mediafirefs_openfile that can be allocated at a time
MaxHandles == 2

\* length of the folder names folder_create is called with
MaxName == 3

\* number of bytes a staging file holds
MaxSize == 2

\* ------------------------------------------------------------ constants
O_RDONLY == 0
O_WRONLY == 1
O_RDWR == 2
O_ACCMODE == 3
EACCES == 13
ENOENT == 2
EAGAIN == 11
S_IFREG == 32768
MODE_0666 == 438
MODE_0644 == 420
EUID == 1000
EGID == 100
STATUS_DONE == 99

Paths == {"/f", "/g"}
Threads == {"t1", "t2"}
OpenFlags == {O_RDONLY, O_WRONLY, O_RDWR}
Absent == -1
NoStat ==
    [st_mode |-> 0, st_nlink |-> 0, st_size |-> 0, st_uid |-> 0, st_gid |-> 0]
Idle ==
    [pc |-> "idle", path |-> "", flags |-> 0, is_open |-> FALSE, fileerror |-> 0]

\* struct mediafirefs_openfile, without its descriptor: two handles with the
\* same path and flags are told apart by nothing any callback reads
OpenFile(path, is_readonly, is_local) ==
    [path |-> path, is_readonly |-> is_readonly, is_local |-> is_local]

OpenFiles ==
    {OpenFile(p, r, l) : p \in Paths, r \in BOOLEAN, l \in BOOLEAN} \
    {OpenFile(p, TRUE, TRUE) : p \in Paths}

VARIABLES
    sv_readonlyfiles, \* ctx->sv_readonlyfiles: path -> number of entries
    sv_writefiles,    \* ctx->sv_writefiles: path -> number of entries
    openfiles,        \* the handles the host holds: openfile -> how many
    nfds,             \* the number of staged file descriptors that are open
    tree,             \* ctx->tree: path -> size of the file, or Absent
    remote,           \* the account behind ctx->conn: path -> size, or Absent
    th,               \* each host thread's position in its callback
    last,             \* what the callback that returned last gave the host
    alive,            \* FALSE once exit(1) was called
    tree_folders,     \* ctx->tree: the folders of the catalog
    remote_folders,   \* the account behind ctx->conn: its folders
    staging,          \* the bytes of the staging files: <<path, kind>> -> bytes
    remote_data,      \* the account behind ctx->conn: path -> bytes of the file
    uploaded,         \* the bytes the remote got under each thread's upload_key
    file              \* a file_t of the mfapi library: its character arrays

vars == <<sv_readonlyfiles, sv_writefiles, openfiles, nfds, tree, remote, th,
          last, alive, tree_folders, remote_folders, staging, remote_data,
          uploaded, file>>

\* the folders on both sides, and the bytes on both sides
folders == <<tree_folders, remote_folders>>
bytes == <<staging, remote_data, uploaded>>

\* ------------------------------------------------------------ string vector
stringv_mem(sv, path) == sv[path] > 0

stringv_add(sv, path) == [sv EXCEPT ![path] = @ + 1]

\* removes one entry; the vector is unchanged when there is none
stringv_del(sv, path) == IF sv[path] > 0 THEN [sv EXCEPT ![path] = @ - 1] ELSE sv

\* stringv_del's return value: 0 when an entry was removed
stringv_del_ret(sv, path) == IF sv[path] > 0 THEN 0 ELSE -1

\* ------------------------------------------------------------ folder tree
\* folder_tree_update: pulls the remote's changes; on a transport error (or,
\* not forced, inside the debounce interval) the tree stays as it is
folder_tree_update(tr, rem, ok) == IF ok THEN rem ELSE tr

TreeStat(tr, path) ==
    [st_mode |-> S_IFREG + MODE_0644, st_nlink |-> 1, st_size |-> tr[path],
     st_uid |-> EUID, st_gid |-> EGID]

folder_tree_getattr_ret(tr, path) == IF tr[path] = Absent THEN -ENOENT ELSE 0

folder_tree_getattr_stat(tr, path) ==
    IF tr[path] = Absent THEN NoStat ELSE TreeStat(tr, path)

\* folder_tree_open_file that does not look the path up in the tree
folder_tree_open_file_unchecked(tr, path, update, remote_ok) ==
    IF update /\ ~remote_ok THEN -EACCES ELSE 0

\* folder_tree_open_file: 0 for a staged descriptor, or a negative errno
folder_tree_open_file(tr, path, update, remote_ok) ==
    IF tr[path] = Absent THEN -ENOENT
    ELSE IF update /\ ~remote_ok THEN -EACCES
    ELSE 0

\* folder_tree_tmp_open: 0 for a fresh empty staging file, or -1
folder_tree_tmp_open(ok) == IF ok THEN 0 ELSE -1

\* the staging file behind a handle: the fresh one of its create, or the one
\* the folder tree keeps for the path
StagingFile(openfile) ==
    <<openfile.path, IF openfile.is_local THEN "tmp" ELSE "cache">>

StagingFiles == Paths \X {"tmp", "cache"}

\* folder_tree_open_file with update set fetches the file's bytes into the
\* path's staging file; without, the staging file is reused as it is
folder_tree_open_file_fetch(stg, rdata, path, update) ==
    IF update THEN [stg EXCEPT ![<<path, "cache">>] = rdata[path]] ELSE stg

\* folder_tree_tmp_open: the fresh staging file is empty
folder_tree_tmp_open_file(stg, path) == [stg EXCEPT ![<<path, "tmp">>] = <<>>]

\* ------------------------------------------------------------ helpers
AccMode(flags) == flags % (O_ACCMODE + 1)

RECURSIVE Count(_, _)
Count(f, S) ==
    IF S = {} THEN 0
    ELSE LET x == CHOOSE y \in S : TRUE IN f[x] + Count(f, S \ {x})

\* the handles on a path a successful open or create returned and release
\* was not yet called for: all of them, the read-only ones, the others
OutstandingReadonly(path) == openfiles[OpenFile(path, TRUE, FALSE)]

OutstandingWritable(path) ==
    openfiles[OpenFile(path, FALSE, FALSE)] + openfiles[OpenFile(path, FALSE, TRUE)]

Outstanding(path) == OutstandingReadonly(path) + OutstandingWritable(path)

\* the threads inside release that have not freed their openfile yet
Freeing == {t \in Threads : th[t].pc \in {"upload_simple", "upload_patch", "exit"}}

\* the struct mediafirefs_openfile that are allocated
Allocated == Count(openfiles, OpenFiles) + Cardinality(Freeing)

\* what the host gets back from a callback (the return value and the stat
\* buffer), the last line the callback wrote to stderr, the update argument
\* an open passed to folder_tree_open_file, the calls the callback made, the
\* bytes a read returned and the entries a readdir listed
Returned(op, path, flags, ret, st, log) ==
    [op |-> op, path |-> path, flags |-> flags, ret |-> ret, st |-> st,
     log |-> log, update |-> FALSE, calls |-> <<>>, data |-> <<>>,
     entries |-> {}]

\* a call the callback made into the folder tree or the remote: the updates
\* and the calls that change the account (polls and downloads are not kept)
Call(fn, arg) == [fn |-> fn, arg |-> arg]

\* folder_tree_update(ctx->tree, ctx->conn, force)
UpdateCall(force) == Call("folder_tree_update", force)

\* ------------------------------------------------------------ getattr
SynthStat ==
    [st_mode |-> S_IFREG + MODE_0666, st_nlink |-> 1, st_size |-> 0,
     st_uid |-> EUID, st_gid |-> EGID]

\* line 122
getattr_synthesizes(retval, sv_w, path) ==
    retval # 0 /\ stringv_mem(sv_w, path)

\* a forced update
getattr_update_forced == TRUE

\* line 119: the force argument of getattr's folder_tree_update
getattr_update_force == FALSE

mediafirefs_getattr(t, path) ==
    /\ alive
    /\ th[t].pc = "idle"
    /\ \E ok \in BOOLEAN :
        LET tr == folder_tree_update(tree, remote, ok)
            retval == folder_tree_getattr_ret(tr, path)
            ret == IF getattr_synthesizes(retval, sv_writefiles, path)
                   THEN Returned("getattr", path, 0, 0, SynthStat, "")
                   ELSE Returned("getattr", path, 0, retval,
                                 folder_tree_getattr_stat(tr, path), "")
        IN  /\ tree' = tr
            /\ tree_folders' =
                    folder_tree_update(tree_folders, remote_folders, ok)
            /\ last' = [ret EXCEPT
                            !.calls = <<UpdateCall(getattr_update_force)>>]
    /\ UNCHANGED <<sv_readonlyfiles, sv_writefiles, openfiles, nfds, remote,
                   th, alive, remote_folders, bytes>>
    /\ UNCHANGED file

\* ------------------------------------------------------------ open
\* open_refused with the access mode test the wrong way round
open_refused_inverted(flags, sv_w, path) ==
    AccMode(flags) = O_RDONLY /\ stringv_mem(sv_w, path)

\* open_refused without the access mode test
open_refused_any_mode(flags, sv_w, path) == stringv_mem(sv_w, path)

\* lines 335-336: a not read-only open of a path that is in writefiles
open_refused(flags, sv_w, path) ==
    AccMode(flags) # O_RDONLY /\ stringv_mem(sv_w, path)

\* open_is_open that finds no path opened
open_is_open_never(flags, sv_r, sv_w, path) == FALSE

\* open_is_open without the lookup in writefiles
open_is_open_readonly_only(flags, sv_r, sv_w, path) == stringv_mem(sv_r, path)

\* lines 341-354: whether the file was already opened
open_is_open(flags, sv_r, sv_w, path) ==
    \/ stringv_mem(sv_r, path)
    \/ AccMode(flags) = O_RDONLY /\ stringv_mem(sv_w, path)

\* open_is_readonly that takes write-only for read-only
open_is_readonly_not_rdwr(flags) == AccMode(flags) # O_RDWR

\* open_is_readonly as (flags & O_RDONLY) != 0, which no flags satisfy
open_is_readonly_bit(flags) == FALSE

\* line 368: which string vector the new handle is entered in
open_is_readonly(flags) == AccMode(flags) = O_RDONLY

\* lines 331-354: up to the call of folder_tree_open_file
mediafirefs_open(t, path, flags) ==
    /\ alive
    /\ th[t].pc = "idle"
    /\ IF open_refused(flags, sv_writefiles, path)
       THEN /\ last' = Returned("open", path, flags, -EACCES, NoStat,
                                "file was already opened for writing")
            /\ th' = th
       ELSE /\ th' = [th EXCEPT ![t] =
                        [pc |-> "open_file", path |-> path, flags |-> flags,
                         is_open |-> open_is_open(flags, sv_readonlyfiles,
                                                  sv_writefiles, path),
                         fileerror |-> 0]]
            /\ last' = last
    /\ UNCHANGED <<sv_readonlyfiles, sv_writefiles, openfiles, nfds, tree,
                   remote, alive, folders, bytes>>
    /\ UNCHANGED file

\* lines 356-380: folder_tree_open_file returned
mediafirefs_open_file(t) ==
    /\ alive
    /\ th[t].pc = "open_file"
    /\ Allocated < MaxHandles
    /\ \E remote_ok \in BOOLEAN :
        LET path == th[t].path
            flags == th[t].flags
            fd == folder_tree_open_file(tree, path, ~th[t].is_open, remote_ok)
            openfile == OpenFile(path, open_is_readonly(flags), FALSE)
        IN  IF fd < 0
            THEN /\ last' = [Returned("open", path, flags, fd, NoStat,
                                      "folder_tree_file_open unsuccessful")
                              EXCEPT !.update = ~th[t].is_open]
                 /\ UNCHANGED <<sv_readonlyfiles, sv_writefiles, openfiles,
                                nfds, staging>>
            ELSE /\ nfds' = nfds + 1
                 /\ staging' = folder_tree_open_file_fetch(
                                    staging, remote_data, path, ~th[t].is_open)
                 /\ openfiles' = [openfiles EXCEPT ![openfile] = @ + 1]
                 /\ IF openfile.is_readonly
                    THEN /\ sv_readonlyfiles' =
                                stringv_add(sv_readonlyfiles, path)
                         /\ sv_writefiles' = sv_writefiles
                    ELSE /\ sv_writefiles' = stringv_add(sv_writefiles, path)
                         /\ sv_readonlyfiles' = sv_readonlyfiles
                 /\ last' = [Returned("open", path, flags, 0, NoStat, "")
                              EXCEPT !.update = ~th[t].is_open]
    /\ th' = [th EXCEPT ![t] = Idle]
    /\ UNCHANGED <<tree, remote, alive, folders, remote_data, uploaded>>
    /\ UNCHANGED file

\* ------------------------------------------------------------ create
\* line 412: the new path is entered in writefiles
create_writefiles(sv_w, path) == stringv_add(sv_w, path)

mediafirefs_create(t, path) ==
    /\ alive
    /\ th[t].pc = "idle"
    /\ Allocated < MaxHandles
    /\ \E ok \in BOOLEAN :
        LET fd == folder_tree_tmp_open(ok)
        IN  IF fd < 0
            THEN /\ last' = Returned("create", path, 0, -EACCES, NoStat,
                                     "folder_tree_tmp_open failed")
                 /\ UNCHANGED <<sv_writefiles, openfiles, nfds, staging>>
            ELSE /\ nfds' = nfds + 1
                 /\ staging' = folder_tree_tmp_open_file(staging, path)
                 /\ openfiles' =
                        [openfiles EXCEPT ![OpenFile(path, FALSE, TRUE)] = @ + 1]
                 /\ sv_writefiles' = create_writefiles(sv_writefiles, path)
                 /\ last' = Returned("create", path, 0, 0, NoStat, "")
    /\ UNCHANGED <<sv_readonlyfiles, tree, remote, th, alive, folders,
                   remote_data, uploaded>>
    /\ UNCHANGED file

\* ------------------------------------------------------------ read, write
Min(a, b) == IF a < b THEN a ELSE b

Max(a, b) == IF a > b THEN a ELSE b

\* the bytes the host writes, and the byte of a hole
Bytes == {"a", "b"}

NUL == "0"

\* pread that starts one byte late
pread_late(content, size, offset) ==
    SubSeq(content, offset + 2, Min(offset + size, Len(content)))

\* pread(fd, buf, size, offset): the bytes from offset on, size at most
pread(content, size, offset) ==
    SubSeq(content, offset + 1, Min(offset + size, Len(content)))

\* pwrite(fd, buf, size, offset): buf from offset on, a hole before it filled
\* with null bytes, the rest of the file as it was
pwrite(content, buf, offset) ==
    [i \in 1..Max(Len(content), offset + Len(buf)) |->
        IF i > offset /\ i <= offset + Len(buf) THEN buf[i - offset]
        ELSE IF i <= Len(content) THEN content[i]
        ELSE NUL]

\* lines 417-423; the log names the staging file that was read
mediafirefs_read(t, openfile, size, offset) ==
    /\ alive
    /\ th[t].pc = "idle"
    /\ openfiles[openfile] > 0
    /\ LET data == pread(staging[StagingFile(openfile)], size, offset)
       IN  last' = [Returned("read", openfile.path, 0, Len(data), NoStat,
                             StagingFile(openfile)[2])
                     EXCEPT !.data = data]
    /\ UNCHANGED <<sv_readonlyfiles, sv_writefiles, openfiles, nfds, tree,
                   remote, th, alive, folders, bytes>>
    /\ UNCHANGED file

\* lines 425-431; the host writes through handles that were not opened
\* read-only, and the staging files hold MaxSize bytes
mediafirefs_write(t, openfile, buf, offset) ==
    /\ alive
    /\ th[t].pc = "idle"
    /\ openfiles[openfile] > 0
    /\ ~openfile.is_readonly
    /\ offset + Len(buf) <= MaxSize
    /\ staging' = [staging EXCEPT
                    ![StagingFile(openfile)] = pwrite(@, buf, offset)]
    /\ last' = [Returned("write", openfile.path, 0, Len(buf), NoStat, "")
                 EXCEPT !.data = buf]
    /\ UNCHANGED <<sv_readonlyfiles, sv_writefiles, openfiles, nfds, tree,
                   remote, th, alive, folders, remote_data, uploaded>>
    /\ UNCHANGED file

\* ------------------------------------------------------------ release
\* release_readonlyfiles that leaves the entry in
release_readonlyfiles_kept(sv_r, path) == sv_r

\* line 460: the entry of a read-only handle is removed
release_readonlyfiles(sv_r, path) == stringv_del(sv_r, path)

\* line 472: the entry of a not read-only handle is removed
release_writefiles(sv_w, path) == stringv_del(sv_w, path)

\* release_close that leaves the descriptor open
release_close_leak(n) == n

\* line 466, line 500, line 536: close(openfile->fd)
release_close(n) == n - 1

\* line 508, line 544: what release returns when the upload fails
release_upload_failed == -EACCES

\* line 517: what release returns when the poll call fails
release_poll_failed == -1

\* line 529, line 547: the force argument of release's folder_tree_update
release_update_force == TRUE

\* a test of is_readonly that takes no handle for read-only
release_is_readonly_never(openfile) == FALSE

\* line 457: whether the handle only has to be closed
release_is_readonly(openfile) == openfile.is_readonly

\* lines 453-496 and 536: up to the first call into the remote; the host
\* passes each handle it holds to release once
mediafirefs_release(t, openfile) ==
    /\ alive
    /\ th[t].pc = "idle"
    /\ openfiles[openfile] > 0
    /\ openfiles' = [openfiles EXCEPT ![openfile] = @ - 1]
    /\ LET path == openfile.path
           at(pc) == [th EXCEPT ![t] = [pc |-> pc, path |-> path,
                                        flags |-> 0, is_open |-> FALSE,
                                        fileerror |-> 0]]
       IN  IF release_is_readonly(openfile)
           THEN IF stringv_del_ret(sv_readonlyfiles, path) # 0
                THEN /\ alive' = FALSE
                     /\ th' = at("exit")
                     /\ last' = [last EXCEPT
                            !.log = "FATAL: readonly entry not found"]
                     /\ UNCHANGED <<sv_readonlyfiles, sv_writefiles, nfds>>
                ELSE /\ sv_readonlyfiles' =
                            release_readonlyfiles(sv_readonlyfiles, path)
                     /\ nfds' = release_close(nfds)
                     /\ last' = Returned("release", path, 0, 0, NoStat, "")
                     /\ UNCHANGED <<sv_writefiles, th, alive>>
           ELSE IF stringv_del_ret(sv_writefiles, path) # 0
                THEN /\ alive' = FALSE
                     /\ th' = at("exit")
                     /\ last' = [last EXCEPT
                            !.log = "FATAL: writefiles entry not found"]
                     /\ UNCHANGED <<sv_readonlyfiles, sv_writefiles, nfds>>
                ELSE /\ sv_writefiles' = release_writefiles(sv_writefiles, path)
                     /\ sv_readonlyfiles' = sv_readonlyfiles
                     /\ IF stringv_mem(sv_writefiles', path)
                        THEN /\ alive' = FALSE
                             /\ th' = at("exit")
                             /\ last' = [last EXCEPT !.log =
                                  "FATAL: writefiles entry was found more than once"]
                             /\ nfds' = nfds
                        ELSE IF openfile.is_local
                        THEN /\ th' = at("upload_simple")
                             /\ UNCHANGED <<nfds, last, alive>>
                        ELSE /\ nfds' = release_close(nfds)
                             /\ th' = at("upload_patch")
                             /\ UNCHANGED <<last, alive>>
    /\ UNCHANGED <<tree, remote, folders, bytes>>
    /\ UNCHANGED file

\* lines 497-509: mfconn_api_upload_simple returned; with an upload key the
\* remote holds the bytes of the staging file under that key
release_upload_simple(t) ==
    /\ alive
    /\ th[t].pc = "upload_simple"
    /\ nfds' = release_close(nfds)
    /\ \E res \in {"failed", "no key", "key"} :
        IF res = "key"
        THEN /\ th' = [th EXCEPT ![t].pc = "upload_poll"]
             /\ uploaded' = [uploaded EXCEPT
                                ![t] = staging[<<th[t].path, "tmp">>]]
             /\ last' = last
        ELSE /\ th' = [th EXCEPT ![t] = Idle]
             /\ uploaded' = uploaded
             /\ last' = [Returned("release", th[t].path, 0,
                                  release_upload_failed, NoStat,
                                  "mfconn_api_upload_simple failed")
                          EXCEPT !.calls =
                            <<Call("mfconn_api_upload_simple", th[t].path)>>]
    /\ UNCHANGED <<sv_readonlyfiles, sv_writefiles, openfiles, tree, remote,
                   alive, folders, staging, remote_data>>
    /\ UNCHANGED file

\* lines 511-530: one round of the poll loop, and what follows the loop; with
\* status 99 the account holds the file with the bytes it got; the upload key
\* and what was sent under it are forgotten when release returns
release_upload_poll(t) ==
    /\ alive
    /\ th[t].pc = "upload_poll"
    /\ \E retval \in {0, -1} :
        IF retval # 0
        THEN /\ th' = [th EXCEPT ![t] = Idle]
             /\ last' = [Returned("release", th[t].path, 0,
                                  release_poll_failed, NoStat,
                                  "mfconn_api_upload_poll_upload failed")
                          EXCEPT !.calls =
                            <<Call("mfconn_api_upload_simple", th[t].path)>>]
             /\ uploaded' = [uploaded EXCEPT ![t] = <<>>]
             /\ UNCHANGED <<tree, remote, tree_folders, remote_data>>
        ELSE \E status \in {0, STATUS_DONE} :
        IF status = STATUS_DONE
        THEN \E ok \in BOOLEAN :
             /\ remote' = [remote EXCEPT ![th[t].path] = Len(uploaded[t])]
             /\ remote_data' = [remote_data EXCEPT ![th[t].path] = uploaded[t]]
             /\ tree' = folder_tree_update(tree, remote', ok)
             /\ tree_folders' =
                    folder_tree_update(tree_folders, remote_folders, ok)
             /\ th' = [th EXCEPT ![t] = Idle]
             /\ last' = [Returned("release", th[t].path, 0, 0, NoStat, "done")
                          EXCEPT !.calls =
                            <<Call("mfconn_api_upload_simple", th[t].path),
                              UpdateCall(release_update_force)>>]
             /\ uploaded' = [uploaded EXCEPT ![t] = <<>>]
        ELSE \E fileerror \in {0, 1} :
             /\ th' = [th EXCEPT ![t].fileerror = fileerror]
             /\ UNCHANGED <<tree, remote, last, tree_folders, remote_data,
                            uploaded>>
    /\ UNCHANGED <<sv_readonlyfiles, sv_writefiles, openfiles, nfds, alive,
                   remote_folders, staging>>
    /\ UNCHANGED file

\* lines 538-548: folder_tree_upload_patch returned; when it succeeded the
\* account holds the file with the bytes of the path's staging file
release_upload_patch(t) ==
    /\ alive
    /\ th[t].pc = "upload_patch"
    /\ th' = [th EXCEPT ![t] = Idle]
    /\ \E retval \in {0, -1}, ok \in BOOLEAN :
        LET path == th[t].path
            patch == Call("folder_tree_upload_patch", path)
        IN  /\ retval = 0 => remote[path] # Absent
            /\ IF retval # 0
               THEN /\ last' = [Returned("release", path, 0,
                                         release_upload_failed, NoStat,
                                         "folder_tree_upload_patch failed")
                                 EXCEPT !.calls = <<patch>>]
                    /\ UNCHANGED <<tree, remote, tree_folders, remote_data>>
               ELSE /\ remote_data' = [remote_data EXCEPT
                                        ![path] = staging[<<path, "cache">>]]
                    /\ remote' = [remote EXCEPT
                                    ![path] = Len(staging[<<path, "cache">>])]
                    /\ tree' = folder_tree_update(tree, remote', ok)
                    /\ tree_folders' =
                            folder_tree_update(tree_folders, remote_folders, ok)
                    /\ last' = [Returned("release", path, 0, 0, NoStat, "")
                                 EXCEPT !.calls =
                                   <<patch, UpdateCall(release_update_force)>>]
    /\ UNCHANGED <<sv_readonlyfiles, sv_writefiles, openfiles, nfds, alive,
                   remote_folders, staging, uploaded>>
    /\ UNCHANGED file

\* ------------------------------------------------------------ folder_create
\* C strings are sequences of characters; NULL is no string
NULL == <<"NULL">>

myfiles == <<"m", "y", "f", "i", "l", "e", "s">>

\* folder_create.c line 46: the length the parent is compared with
MYFILES_LENGTH == 13

Strings(chars, n) == UNION {[1..k -> chars] : k \in 0..n}

\* the folder names folder_create is called with
FolderNames == {NULL} \cup Strings({"a", "b"}, MaxName)

\* the parents folder_create is called with: none, the root's name, strings
\* next to it, a folder key of 11 characters, strings of 13 characters
FolderParents ==
    {NULL, myfiles, <<>>, <<"m", "y">>, myfiles \o <<"s">>,
     <<"M", "Y", "F", "I", "L", "E", "S">>,
     <<"k", "0", "1", "2", "3", "4", "5", "6", "7", "8", "9">>,
     myfiles \o <<"0", "0", "0", "0", "0", "0">>,
     <<"k", "0", "1", "2", "3", "4", "5", "6", "7", "8", "9", "a", "b">>}

\* folder_create.c lines 38-41: whether a request is built at all
folder_create_checks(mfconn, name) ==
    /\ mfconn # NULL
    /\ name # NULL
    /\ ~(Len(name) < 1)

\* folder_create_parent that takes "myfiles" for the root only at length 13
folder_create_parent_at_13(parent) ==
    IF parent # NULL /\ Len(parent) = MYFILES_LENGTH /\ parent = myfiles
    THEN NULL
    ELSE parent

\* folder_create.c lines 44-51: the parent the request is built from
folder_create_parent(parent) ==
    IF parent # NULL /\ Len(parent) # MYFILES_LENGTH /\ parent = myfiles
    THEN NULL
    ELSE parent

\* folder_create.c lines 53-65: the query of the signed GET request
folder_create_request(parent, name) ==
    IF folder_create_parent(parent) # NULL
    THEN <<<<"parent_key", folder_create_parent(parent)>>,
           <<"foldername", name>>, <<"response_format", <<"json">>>>>>
    ELSE <<<<"foldername", name>>, <<"response_format", <<"json">>>>>>

\* folder_create.c lines 32-72, called on its own: last.data keeps the
\* arguments, last.calls the request that was sent
mfconn_api_folder_create(mfconn, parent, name) ==
    /\ alive
    /\ \E retval \in {0, -1} :
        last' = IF folder_create_checks(mfconn, name)
                THEN [Returned("mfconn_api_folder_create", "", 0, retval,
                               NoStat, "")
                       EXCEPT !.data = <<mfconn, parent, name>>,
                              !.calls = <<Call("http_get_buf",
                                    folder_create_request(parent, name))>>]
                ELSE [Returned("mfconn_api_folder_create", "", 0, -1,
                               NoStat, "")
                       EXCEPT !.data = <<mfconn, parent, name>>]
    /\ UNCHANGED <<sv_readonlyfiles, sv_writefiles, openfiles, nfds, tree,
                   remote, th, alive, folders, bytes>>
    /\ UNCHANGED file

\* ------------------------------------------------------------ folders
\* the paths of folders are sequences of characters, as mkdir splits them
MkdirPaths ==
    {<<"/">>, <<"/", "d">>, <<"/", "d", "/">>, <<"/", "d", "/", "e">>,
     <<"/", "x", "/", "e">>}

RmdirPaths ==
    {<<"/", "d">>, <<"/", "e">>, <<"/", "d", "/", "e">>, <<"/", "x">>}

ReaddirPaths == {<<"/">>, <<"/", "d">>, <<"/", "x">>}

\* the characters of a file's path
PathChars(path) == <<"/">> \o <<IF path = "/f" THEN "f" ELSE "g">>

\* ctx->conn
Conn == <<"c">>

\* a key is opaque to the callbacks: the remote's name for a folder or file
FolderKey(folder) == <<"k">> \o folder

KeyFolder(key) == Tail(key)

FileKey(path) == <<"k">> \o PathChars(path)

\* folder_tree_path_get_key: the key of a folder of the catalog, or NULL
folder_tree_path_get_key(tf, folder) ==
    IF folder \in tf THEN FolderKey(folder) ELSE NULL

\* folder_tree_path_get_key for the path of a file
folder_tree_path_get_key_file(tr, path) ==
    IF tr[path] # Absent THEN FileKey(path) ELSE NULL

\* the folder a folder/create.php request names: under the parent_key's
\* folder, or under the root without one
RequestFolder(request) ==
    IF request[1][1] = "parent_key"
    THEN KeyFolder(request[1][2]) \o <<"/">> \o request[2][2]
    ELSE <<"/">> \o request[1][2]

\* whether the account takes the request: the parent exists, the folder not
RequestAccepted(rf, request) ==
    /\ RequestFolder(request) \notin rf
    /\ request[1][1] = "parent_key" => KeyFolder(request[1][2]) \in rf

IsPrefix(a, b) == Len(a) <= Len(b) /\ SubSeq(b, 1, Len(a)) = a

\* folder/delete.php: the folder goes, with what is below it
FolderDeleted(rf, folder) == {f \in rf : ~IsPrefix(folder, f)}

\* folder_tree_readdir: ".", "..", the child folders, the child files
folder_tree_readdir(tf, tr, folder) ==
    {<<".">>, <<".", ".">>}
        \cup {f \in tf : \E name \in Strings({"d", "e", "x"}, 1) :
                name # <<>> /\ f = (IF folder = <<"/">> THEN <<>> ELSE folder)
                                        \o <<"/">> \o name}
        \cup {PathChars(p) : p \in {q \in Paths :
                                    folder = <<"/">> /\ tr[q] # Absent}}

\* ------------------------------------------------------------ readdir
\* lines 137-146
mediafirefs_readdir(t, folder) ==
    /\ alive
    /\ th[t].pc = "idle"
    /\ last' = IF folder = <<"/">> \/ folder \in tree_folders
               THEN [Returned("readdir", "", 0, 0, NoStat, "") EXCEPT
                        !.data = folder,
                        !.entries = folder_tree_readdir(tree_folders, tree,
                                                        folder)]
               ELSE [Returned("readdir", "", 0, -ENOENT, NoStat, "") EXCEPT
                        !.data = folder]
    /\ UNCHANGED <<sv_readonlyfiles, sv_writefiles, openfiles, nfds, tree,
                   remote, th, alive, folders, bytes>>
    /\ UNCHANGED file

\* ------------------------------------------------------------ mkdir
\* lines 194-196: a trailing slash is removed
mkdir_strip(path) ==
    IF path[Len(path)] = "/" THEN SubSeq(path, 1, Len(path) - 1) ELSE path

\* line 200: strrchr(dirname, '/'), as an index; 0 when there is no slash
strrchr_slash(str) ==
    IF \E i \in 1..Len(str) : str[i] = "/"
    THEN CHOOSE i \in 1..Len(str) :
            str[i] = "/" /\ \A j \in (i + 1)..Len(str) : str[j] # "/"
    ELSE 0

\* line 207: what is before the last slash
mkdir_dirname(path) ==
    SubSeq(mkdir_strip(path), 1, strrchr_slash(mkdir_strip(path)) - 1)

\* line 210: what is after the last slash
mkdir_basename(path) ==
    SubSeq(mkdir_strip(path), strrchr_slash(mkdir_strip(path)) + 1,
           Len(mkdir_strip(path)))

\* lines 214-218: the key mkdir passes to mfconn_api_folder_create
mkdir_key(tf, path) ==
    IF mkdir_dirname(path) = <<>>
    THEN NULL
    ELSE folder_tree_path_get_key(tf, mkdir_dirname(path))

\* the errno of a failed upload, for a failed mutation
mutation_failed_as_upload == -EACCES

\* line 224, line 260, line 295: what a mutation returns when the remote
\* call fails
mutation_failed == -EAGAIN

\* an update that is not forced
mutation_update_not_forced == FALSE

\* line 229, line 264, line 299: the force argument of the update of a mutation
mutation_update_force == TRUE

\* lines 173-232
mediafirefs_mkdir(t, path) ==
    /\ alive
    /\ th[t].pc = "idle"
    /\ IF strrchr_slash(mkdir_strip(path)) = 0
       THEN /\ last' = [Returned("mkdir", "", 0, -ENOENT, NoStat,
                                 "cannot find slash")
                         EXCEPT !.data = path]
            /\ UNCHANGED <<tree, tree_folders, remote_folders>>
       ELSE LET key == mkdir_key(tree_folders, path)
                basename == mkdir_basename(path)
                create == Call("mfconn_api_folder_create", <<key, basename>>)
                request == folder_create_request(key, basename)
            IN  \E retval \in {0, -1} :
                /\ retval = 0 =>
                        /\ folder_create_checks(Conn, basename)
                        /\ RequestAccepted(remote_folders, request)
                /\ IF retval # 0
                   THEN /\ last' = [Returned("mkdir", "", 0, mutation_failed,
                                      NoStat,
                                      "mfconn_api_folder_create unsuccessful")
                                     EXCEPT !.data = path, !.calls = <<create>>]
                        /\ UNCHANGED <<tree, tree_folders, remote_folders>>
                   ELSE \E ok \in BOOLEAN :
                        /\ remote_folders' =
                              remote_folders \cup {RequestFolder(request)}
                        /\ tree' = folder_tree_update(tree, remote, ok)
                        /\ tree_folders' = folder_tree_update(
                                    tree_folders, remote_folders', ok)
                        /\ last' = [Returned("mkdir", "", 0, 0, NoStat, "")
                                     EXCEPT !.data = path,
                                       !.calls = <<create,
                                         UpdateCall(mutation_update_force)>>]
    /\ UNCHANGED <<sv_readonlyfiles, sv_writefiles, openfiles, nfds, remote,
                   th, alive, bytes>>
    /\ UNCHANGED file

\* ------------------------------------------------------------ rmdir
\* a test for NULL that never finds it
key_never_null(key) == FALSE

\* line 251, line 286: whether the path did not resolve to a key
key_is_null(key) == key = NULL

\* lines 234-267
mediafirefs_rmdir(t, path) ==
    /\ alive
    /\ th[t].pc = "idle"
    /\ LET key == folder_tree_path_get_key(tree_folders, path)
           delete == Call("mfconn_api_folder_delete", key)
       IN  IF key_is_null(key)
           THEN /\ last' = [Returned("rmdir", "", 0, -ENOENT, NoStat,
                                     "key is NULL")
                             EXCEPT !.data = path]
                /\ UNCHANGED <<tree, tree_folders, remote_folders>>
           ELSE \E retval \in {0, -1} :
                /\ retval = 0 => KeyFolder(key) \in remote_folders
                /\ IF retval # 0
                   THEN /\ last' = [Returned("rmdir", "", 0, mutation_failed,
                                      NoStat,
                                      "mfconn_api_folder_create unsuccessful")
                                     EXCEPT !.data = path, !.calls = <<delete>>]
                        /\ UNCHANGED <<tree, tree_folders, remote_folders>>
                   ELSE \E ok \in BOOLEAN :
                        /\ remote_folders' =
                              FolderDeleted(remote_folders, KeyFolder(key))
                        /\ tree' = folder_tree_update(tree, remote, ok)
                        /\ tree_folders' = folder_tree_update(
                                    tree_folders, remote_folders', ok)
                        /\ last' = [Returned("rmdir", "", 0, 0, NoStat, "")
                                     EXCEPT !.data = path,
                                       !.calls = <<delete,
                                         UpdateCall(mutation_update_force)>>]
    /\ UNCHANGED <<sv_readonlyfiles, sv_writefiles, openfiles, nfds, remote,
                   th, alive, bytes>>
    /\ UNCHANGED file

\* ------------------------------------------------------------ unlink
\* lines 269-302
mediafirefs_unlink(t, path) ==
    /\ alive
    /\ th[t].pc = "idle"
    /\ LET key == folder_tree_path_get_key_file(tree, path)
           delete == Call("mfconn_api_file_delete", key)
       IN  IF key_is_null(key)
           THEN /\ last' = Returned("unlink", path, 0, -ENOENT, NoStat,
                                    "key is NULL")
                /\ UNCHANGED <<tree, tree_folders, remote>>
           ELSE \E retval \in {0, -1} :
                /\ retval = 0 => remote[path] # Absent
                /\ IF retval # 0
                   THEN /\ last' = [Returned("unlink", path, 0,
                                      mutation_failed, NoStat,
                                      "mfconn_api_file_create unsuccessful")
                                     EXCEPT !.calls = <<delete>>]
                        /\ UNCHANGED <<tree, tree_folders, remote>>
                   ELSE \E ok \in BOOLEAN :
                        /\ remote' = [remote EXCEPT ![path] = Absent]
                        /\ tree' = folder_tree_update(tree, remote', ok)
                        /\ tree_folders' = folder_tree_update(
                                    tree_folders, remote_folders, ok)
                        /\ last' = [Returned("unlink", path, 0, 0, NoStat, "")
                                     EXCEPT !.calls = <<delete,
                                         UpdateCall(mutation_update_force)>>]
    /\ UNCHANGED <<sv_readonlyfiles, sv_writefiles, openfiles, nfds, th,
                   alive, remote_folders, bytes>>
    /\ UNCHANGED file

\* ------------------------------------------------------------ file.c
\* lines 29-30: char quickkey[18], char hash[65]
QUICKKEY_SIZE == 18

HASH_SIZE == 65

\* line 73: the lengths of a key
KEY_LENGTH_SHORT == 11

KEY_LENGTH_LONG == 15

\* line 96: the length of the shortest hash
HASH_LENGTH_MIN == 32

\* the longest key and the longest hash the setters are called with
MaxKey == 18

MaxHash == 66

\* n times the character c
Rep(c, n) == [i \in 1..n |-> c]

\* the strings the setters are called with: of every length up to n, one of
\* a's only and one that ends with a b
FileStrings(n) ==
    {Rep("a", k) : k \in 0..n} \cup {Rep("a", k - 1) \o <<"b">> : k \in 1..n}

\* the hashes file_set_hash is called with: the empty one, and those from
\* just below the shortest hash on
HashStrings ==
    {h \in FileStrings(MaxHash) :
        Len(h) = 0 \/ Len(h) >= HASH_LENGTH_MIN - 2}

\* file_t *file: NULL or the file
FilePtr == <<"file">>

\* memset(buf, 0, sizeof(buf))
memset(buf) == [i \in 1..Len(buf) |-> NUL]

\* strncpy(dst, src, n): the characters of src, at most n, and null bytes up
\* to n after a shorter src
strncpy(dst, src, n) ==
    [i \in 1..Len(dst) |->
        IF i > n THEN dst[i]
        ELSE IF i <= Len(src) THEN src[i]
        ELSE NUL]

\* the C string in a character array: what is before the first null byte
CString(buf) ==
    IF \E i \in 1..Len(buf) : buf[i] = NUL
    THEN SubSeq(buf, 1, (CHOOSE i \in 1..Len(buf) :
                            buf[i] = NUL /\ \A j \in 1..(i - 1) : buf[j] # NUL)
                        - 1)
    ELSE buf

\* lines 40-48: calloc(1, sizeof(file_t))
file_alloc ==
    [quickkey |-> Rep(NUL, QUICKKEY_SIZE), hash |-> Rep(NUL, HASH_SIZE)]

\* the test of line 73 without its upper part
file_set_key_checks_min(f, key) ==
    f # NULL /\ key # NULL /\ Len(key) >= KEY_LENGTH_SHORT

\* lines 70-73: whether file_set_key goes on to store the key
file_set_key_checks(f, key) ==
    /\ f # NULL
    /\ key # NULL
    /\ ~(Len(key) # KEY_LENGTH_SHORT /\ Len(key) # KEY_LENGTH_LONG)

\* lines 64-79
file_set_key(f, key) ==
    /\ alive
    /\ IF file_set_key_checks(f, key)
       THEN /\ file' = [file EXCEPT !.quickkey =
                            strncpy(memset(@), key, QUICKKEY_SIZE - 1)]
            /\ last' = [Returned("file_set_key", "", 0, 0, NoStat, "")
                         EXCEPT !.data = <<f, key>>]
       ELSE /\ file' = file
            /\ last' = [Returned("file_set_key", "", 0, -1, NoStat, "")
                         EXCEPT !.data = <<f, key>>]
    /\ UNCHANGED <<sv_readonlyfiles, sv_writefiles, openfiles, nfds, tree,
                   remote, th, alive, folders, bytes>>

\* lines 81-87
file_get_key(f) ==
    /\ alive
    /\ last' = [Returned("file_get_key", "", 0, 0, NoStat, "")
                 EXCEPT !.data = <<f, IF f = NULL THEN NULL
                                      ELSE CString(file.quickkey)>>]
    /\ UNCHANGED <<sv_readonlyfiles, sv_writefiles, openfiles, nfds, tree,
                   remote, th, alive, folders, bytes, file>>

\* lines 93-96: whether file_set_hash goes on to store the hash
file_set_hash_checks(f, hash) ==
    /\ f # NULL
    /\ hash # NULL
    /\ ~(Len(hash) < HASH_LENGTH_MIN)

\* lines 89-102
file_set_hash(f, hash) ==
    /\ alive
    /\ IF file_set_hash_checks(f, hash)
       THEN /\ file' = [file EXCEPT !.hash =
                            strncpy(memset(@), hash, HASH_SIZE - 1)]
            /\ last' = [Returned("file_set_hash", "", 0, 0, NoStat, "")
                         EXCEPT !.data = <<f, hash>>]
       ELSE /\ file' = file
            /\ last' = [Returned("file_set_hash", "", 0, -1, NoStat, "")
                         EXCEPT !.data = <<f, hash>>]
    /\ UNCHANGED <<sv_readonlyfiles, sv_writefiles, openfiles, nfds, tree,
                   remote, th, alive, folders, bytes>>

\* lines 104-110
file_get_hash(f) ==
    /\ alive
    /\ last' = [Returned("file_get_hash", "", 0, 0, NoStat, "")
                 EXCEPT !.data = <<f, IF f = NULL THEN NULL
                                      ELSE CString(file.hash)>>]
    /\ UNCHANGED <<sv_readonlyfiles, sv_writefiles, openfiles, nfds, tree,
                   remote, th, alive, folders, bytes, file>>

\* the mount: nothing is open, and the tree is in step with the account,
\* which holds the (empty) file /g and no /f
Init ==
    /\ sv_readonlyfiles = [p \in Paths |-> 0]
    /\ sv_writefiles = [p \in Paths |-> 0]
    /\ openfiles = [of \in OpenFiles |-> 0]
    /\ nfds = 0
    /\ remote = [p \in Paths |-> IF p = "/g" THEN 0 ELSE Absent]
    /\ tree = remote
    /\ th = [t \in Threads |-> Idle]
    /\ last = Returned("mount", "", 0, 0, NoStat, "")
    /\ alive = TRUE
    /\ remote_folders = {}
    /\ tree_folders = remote_folders
    /\ staging = [f \in StagingFiles |-> <<>>]
    /\ remote_data = [p \in Paths |-> <<>>]
    /\ uploaded = [t \in Threads |-> <<>>]
    /\ file = file_alloc

\* what the host calls besides create
Callback(t) ==
    \/ \E path \in Paths : mediafirefs_getattr(t, path)
    \/ \E path \in Paths, flags \in OpenFlags :
            mediafirefs_open(t, path, flags)
    \/ mediafirefs_open_file(t)
    \/ \E openfile \in OpenFiles : mediafirefs_release(t, openfile)
    \/ release_upload_simple(t)
    \/ release_upload_poll(t)
    \/ release_upload_patch(t)

\* the host calls the callbacks in any order, from any of its threads
Next ==
    \E t \in Threads :
        \/ Callback(t)
        \/ \E path \in Paths : mediafirefs_create(t, path)

Spec == Init /\ [][Next]_vars

\* lines 382-386: create "is called if the file does not exist yet": the
\* host calls it for a path only when getattr finds the path neither in the
\* tree nor in writefiles
host_create(t, path) ==
    /\ folder_tree_getattr_ret(tree, path) # 0
    /\ ~stringv_mem(sv_writefiles, path)
    /\ mediafirefs_create(t, path)

NextHost ==
    \E t \in Threads :
        \/ Callback(t)
        \/ \E path \in Paths : host_create(t, path)

\* the host as the kernel drives it: create only for a missing path
SpecHost == Init /\ [][NextHost]_vars

\* the thread of a host that runs one callback at a time
Single == "t1"

\* one callback at a time, every callback; what is checked here is which
\* calls a callback makes: the host works on one folder, and its writes are
\* of no bytes
NextVfs ==
    \/ Callback(Single)
    \/ \E path \in Paths : host_create(Single, path)
    \/ \E folder \in {<<"/">>} : mediafirefs_readdir(Single, folder)
    \/ \E path \in {<<"/", "d">>} : mediafirefs_mkdir(Single, path)
    \/ \E path \in {<<"/", "d">>} : mediafirefs_rmdir(Single, path)
    \/ \E path \in Paths : mediafirefs_unlink(Single, path)
    \/ \E openfile \in OpenFiles, size \in {1}, offset \in {0} :
            mediafirefs_read(Single, openfile, size, offset)
    \/ \E openfile \in OpenFiles, buf \in {<<>>}, offset \in {0} :
            mediafirefs_write(Single, openfile, buf, offset)

SpecVfs == Init /\ [][NextVfs]_vars

\* one callback at a time, on folders and on the catalog: the host reads and
\* changes the folders and removes files, while it holds handles it got from
\* create and from read-only opens
NextDir ==
    \/ \E path \in Paths : mediafirefs_getattr(Single, path)
    \/ \E folder \in ReaddirPaths : mediafirefs_readdir(Single, folder)
    \/ \E path \in MkdirPaths : mediafirefs_mkdir(Single, path)
    \/ \E path \in RmdirPaths : mediafirefs_rmdir(Single, path)
    \/ \E path \in Paths : mediafirefs_unlink(Single, path)
    \/ \E path \in Paths : host_create(Single, path)
    \/ \E path \in Paths : mediafirefs_open(Single, path, O_RDONLY)
    \/ mediafirefs_open_file(Single)

SpecDir == Init /\ [][NextDir]_vars

\* one callback at a time, on files: the host creates a file the account does
\* not hold, writes it from its first byte on, releases it, opens it read-only
\* and reads it whole. The
\* bytes of a tmp file stay in staging after its handle is released, where no
\* handle reads them, until create empties the file
NextRoundTrip ==
    \/ \E path \in Paths : remote[path] = Absent /\ host_create(Single, path)
    \/ \E path \in Paths, buf \in Strings(Bytes, MaxSize), offset \in {0} :
            mediafirefs_write(Single, OpenFile(path, FALSE, TRUE), buf, offset)
    \/ \E openfile \in OpenFiles : mediafirefs_release(Single, openfile)
    \/ release_upload_simple(Single)
    \/ release_upload_poll(Single)
    \/ \E path \in Paths : mediafirefs_open(Single, path, O_RDONLY)
    \/ mediafirefs_open_file(Single)
    \/ \E openfile \in OpenFiles, size \in {MaxSize}, offset \in {0} :
            mediafirefs_read(Single, openfile, size, offset)
    \/ \E path \in Paths : mediafirefs_getattr(Single, path)

SpecRoundTrip == Init /\ [][NextRoundTrip]_vars

\* one callback at a time, on files: the host opens in every mode, and writes
\* one byte at the start of a file through every handle that is not read-only
NextHandles ==
    \/ Callback(Single)
    \/ \E path \in Paths : host_create(Single, path)
    \/ \E openfile \in OpenFiles, size \in {MaxSize}, offset \in {0} :
            mediafirefs_read(Single, openfile, size, offset)
    \/ \E openfile \in OpenFiles, buf \in {<<"a">>}, offset \in {0} :
            mediafirefs_write(Single, openfile, buf, offset)

SpecHandles == Init /\ [][NextHandles]_vars

\* folder_create.c on its own: any caller, any arguments
NextFolderCreate ==
    \E mfconn \in {NULL, <<"c">>}, parent \in FolderParents,
       name \in FolderNames :
        mfconn_api_folder_create(mfconn, parent, name)

SpecFolderCreate == Init /\ [][NextFolderCreate]_vars

\* the key of a file_t on its own: any caller, keys of every length
NextFileKey ==
    \/ \E f \in {NULL, FilePtr}, key \in {NULL} \cup FileStrings(MaxKey) :
            file_set_key(f, key)
    \/ \E f \in {NULL, FilePtr} : file_get_key(f)

SpecFileKey == Init /\ [][NextFileKey]_vars

\* the hash of a file_t on its own: any caller, hashes of every length
NextFileHash ==
    \/ \E f \in {NULL, FilePtr}, hash \in {NULL} \cup HashStrings :
            file_set_hash(f, hash)
    \/ \E f \in {NULL, FilePtr} : file_get_hash(f)

SpecFileHash == Init /\ [][NextFileHash]_vars

\* ------------------------------------------------------------ properties
\* C1: in every reachable state every path has at most one entry in
\* sv_writefiles (writable_open)
C1_AtMostOneWritableEntry == \A p \in Paths : sv_writefiles[p] <= 1

\* C2: in every reachable state no path is in both string vectors at once
C2_NeverInBoth ==
    \A p \in Paths : ~(sv_writefiles[p] > 0 /\ sv_readonlyfiles[p] > 0)

\* C2, amended: a path may be in both string vectors; the exclusion check of
\* open looks at sv_writefiles alone: an open is refused there exactly when
\* its access mode is not read-only and the path is in sv_writefiles
C2_ExclusionIsWriteWriteOnly ==
    [][\A t \in Threads, p \in Paths, f \in OpenFlags :
        (th[t].pc = "idle" /\ mediafirefs_open(t, p, f)) =>
            ((th'[t].pc = "idle" /\ last'.ret = -EACCES)
                <=> (AccMode(f) # O_RDONLY /\ sv_writefiles[p] > 0))]_vars

\* a path is in both string vectors, and the open that returned last was
\* let through
C2_InBoth ==
    /\ last.op = "open"
    /\ last.ret = 0
    /\ sv_writefiles[last.path] > 0
    /\ sv_readonlyfiles[last.path] > 0

\* C3: a write-only or read-write open of a path a writable handle is
\* outstanding on returns -EACCES, allocates no handle and leaves both string
\* vectors as they are
C3_WriteOpenWhileWritableRefused ==
    [][\A t \in Threads, p \in Paths, f \in OpenFlags :
        (/\ AccMode(f) # O_RDONLY
         /\ OutstandingWritable(p) > 0
         /\ mediafirefs_open(t, p, f)) =>
            /\ th'[t].pc = "idle"
            /\ last'.op = "open"
            /\ last'.ret = -EACCES
            /\ Allocated' = Allocated
            /\ UNCHANGED <<sv_readonlyfiles, sv_writefiles, openfiles, nfds>>]_vars

\* a write open was refused while the writable handle is outstanding
C3_Refused ==
    /\ last.op = "open"
    /\ AccMode(last.flags) # O_RDONLY
    /\ last.ret = -EACCES
    /\ last.log = "file was already opened for writing"
    /\ OutstandingWritable(last.path) > 0

\* C4: a read-only open of a path a writable handle (opened on an existing
\* file) is outstanding on returns -EACCES and adds no entry to
\* sv_readonlyfiles
C4_ReadOpenWhileWritableRefused ==
    [][\A t \in Threads, p \in Paths :
        /\ (/\ openfiles[OpenFile(p, FALSE, FALSE)] > 0
            /\ mediafirefs_open(t, p, O_RDONLY)) =>
                /\ th'[t].pc = "idle"
                /\ last'.ret = -EACCES
        /\ (/\ th[t].path = p
            /\ AccMode(th[t].flags) = O_RDONLY
            /\ openfiles[OpenFile(p, FALSE, FALSE)] > 0
            /\ mediafirefs_open_file(t)) =>
                /\ last'.ret = -EACCES
                /\ sv_readonlyfiles' = sv_readonlyfiles]_vars

\* C4, amended: such an open passes the exclusion check and calls
\* folder_tree_open_file with update = false; when the open then returns 0
\* it has added exactly one entry to sv_readonlyfiles and none to
\* sv_writefiles
C4_ReadOpenWhileWritableAdmitted ==
    [][\A t \in Threads, p \in Paths :
        /\ (/\ openfiles[OpenFile(p, FALSE, FALSE)] > 0
            /\ mediafirefs_open(t, p, O_RDONLY)) =>
                /\ th'[t].pc = "open_file"
                /\ th'[t].is_open
                /\ UNCHANGED <<sv_readonlyfiles, sv_writefiles, openfiles>>
        /\ (/\ th[t].path = p
            /\ AccMode(th[t].flags) = O_RDONLY
            /\ openfiles[OpenFile(p, FALSE, FALSE)] > 0
            /\ last'.ret = 0
            /\ mediafirefs_open_file(t)) =>
                /\ sv_readonlyfiles' = [sv_readonlyfiles EXCEPT ![p] = @ + 1]
                /\ sv_writefiles' = sv_writefiles]_vars

\* a read-only open returned 0, without a refetch, beside the writable handle
C4_ReadBesideWritable ==
    /\ last.op = "open"
    /\ AccMode(last.flags) = O_RDONLY
    /\ last.ret = 0
    /\ ~last.update
    /\ openfiles[OpenFile(last.path, FALSE, FALSE)] > 0
    /\ sv_readonlyfiles[last.path] = 1

\* C5: a write-only or read-write open of a path that read-only handles are
\* outstanding on returns -EACCES and adds no entry to sv_writefiles
C5_WriteOpenWhileReadonlyRefused ==
    [][\A t \in Threads, p \in Paths, f \in OpenFlags :
        /\ (/\ AccMode(f) # O_RDONLY
            /\ OutstandingReadonly(p) > 0
            /\ mediafirefs_open(t, p, f)) =>
                /\ th'[t].pc = "idle"
                /\ last'.ret = -EACCES
        /\ (/\ th[t].path = p
            /\ th[t].flags = f
            /\ AccMode(f) # O_RDONLY
            /\ OutstandingReadonly(p) > 0
            /\ mediafirefs_open_file(t)) =>
                /\ last'.ret = -EACCES
                /\ sv_writefiles' = sv_writefiles]_vars

\* C5, amended: such an open is refused only when the path is in
\* sv_writefiles too; otherwise it passes the exclusion check and calls
\* folder_tree_open_file with update = false, and when the open then returns
\* 0 it has added exactly one entry to sv_writefiles and none to
\* sv_readonlyfiles
C5_WriteOpenWhileReadonlyAdmitted ==
    [][\A t \in Threads, p \in Paths, f \in OpenFlags :
        /\ (/\ AccMode(f) # O_RDONLY
            /\ OutstandingReadonly(p) > 0
            /\ mediafirefs_open(t, p, f)) =>
                IF sv_writefiles[p] > 0
                THEN th'[t].pc = "idle" /\ last'.ret = -EACCES
                ELSE /\ th'[t].pc = "open_file"
                     /\ th'[t].is_open
                     /\ UNCHANGED <<sv_readonlyfiles, sv_writefiles, openfiles>>
        /\ (/\ th[t].path = p
            /\ th[t].flags = f
            /\ AccMode(f) # O_RDONLY
            /\ OutstandingReadonly(p) > 0
            /\ last'.ret = 0
            /\ mediafirefs_open_file(t)) =>
                /\ sv_writefiles' = [sv_writefiles EXCEPT ![p] = @ + 1]
                /\ sv_readonlyfiles' = sv_readonlyfiles]_vars

\* a write open returned 0, without a refetch, beside a read-only handle
C5_WriteBesideReadonly ==
    /\ last.op = "open"
    /\ AccMode(last.flags) # O_RDONLY
    /\ last.ret = 0
    /\ ~last.update
    /\ OutstandingReadonly(last.path) > 0
    /\ sv_writefiles[last.path] = 1

\* C6: a read-only open of a path that is in the tree and has no writable
\* handle is not refused, however many read-only handles are outstanding: it
\* fails only when the fetch of a file that was not open fails, and otherwise
\* returns 0, adds one entry to sv_readonlyfiles and none to sv_writefiles
C6_ReadOpenAnyNumberOfTimes ==
    [][\A t \in Threads, p \in Paths :
        /\ (/\ OutstandingWritable(p) = 0
            /\ mediafirefs_open(t, p, O_RDONLY)) =>
                /\ th'[t].pc = "open_file"
                /\ th'[t].is_open = (OutstandingReadonly(p) > 0)
        /\ (/\ th[t].path = p
            /\ AccMode(th[t].flags) = O_RDONLY
            /\ OutstandingWritable(p) = 0
            /\ tree[p] # Absent
            /\ mediafirefs_open_file(t)) =>
                \/ /\ last'.ret = 0
                   /\ sv_readonlyfiles' = [sv_readonlyfiles EXCEPT ![p] = @ + 1]
                   /\ sv_writefiles' = sv_writefiles
                \/ /\ ~th[t].is_open
                   /\ last'.update
                   /\ last'.ret = -EACCES
                   /\ UNCHANGED <<sv_readonlyfiles, sv_writefiles>>]_vars

\* a second read-only handle was opened on a path
C6_SecondReader ==
    /\ last.op = "open"
    /\ AccMode(last.flags) = O_RDONLY
    /\ last.ret = 0
    /\ ~last.update
    /\ sv_readonlyfiles[last.path] = 2
    /\ sv_writefiles[last.path] = 0

\* C7: once every handle on a path was passed to release, whether or not the
\* upload succeeds, the path is in neither string vector, and an open of it
\* in any access mode passes the exclusion check
C7_ClosedAfterRelease ==
    \A p \in Paths :
        Outstanding(p) = 0 =>
            /\ sv_readonlyfiles[p] = 0
            /\ sv_writefiles[p] = 0
            /\ \A f \in OpenFlags : ~open_refused(f, sv_writefiles, p)

\* the release of the only handle on a path failed, and the path is closed
C7_ClosedAfterFailedRelease ==
    /\ last.op = "release"
    /\ last.ret # 0
    /\ Outstanding(last.path) = 0
    /\ sv_readonlyfiles[last.path] = 0
    /\ sv_writefiles[last.path] = 0

\* the threads that hold a staged descriptor of a handle they release
HoldingFd == {t \in Threads : th[t].pc \in {"upload_simple", "exit"}}

\* C8: for every path the entries of the two string vectors are as many as
\* the handles a successful open or create returned and release was not yet
\* called for, and the open staged descriptors are those of these handles
\* and of the releases that have not closed theirs yet
C8_OneEntryAndOneFdPerHandle ==
    /\ \A p \in Paths :
        sv_readonlyfiles[p] + sv_writefiles[p] = Outstanding(p)
    /\ nfds = Count(openfiles, OpenFiles) + Cardinality(HoldingFd)

\* a release failed while other handles are outstanding
C8_ReleasedOneOfTwo ==
    /\ last.op = "release"
    /\ last.ret # 0
    /\ \A t \in Threads : th[t].pc = "idle"
    /\ Count(openfiles, OpenFiles) = 1
    /\ nfds = 1

\* C9: whenever the release of a not read-only handle fails it returns
\* -EACCES, and the handle's entry is no longer in sv_writefiles
C9_FailedReleaseReturnsEACCES ==
    [][\A t \in Threads, p \in Paths :
        (/\ th[t].pc \in {"upload_simple", "upload_poll", "upload_patch"}
         /\ th[t].path = p
         /\ th'[t].pc = "idle"
         /\ last'.ret # 0) =>
            /\ last'.ret = -EACCES
            /\ sv_writefiles'[p] = OutstandingWritable(p)']_vars

\* a file that create staged and whose release has not returned
Staged(p) ==
    \/ openfiles[OpenFile(p, FALSE, TRUE)] > 0
    \/ \E t \in Threads :
        th[t].pc \in {"upload_simple", "upload_poll"} /\ th[t].path = p

\* C10: a getattr of a path that create staged, that is not in the tree and
\* whose release has not returned returns 0 and the synthesized record
\* (regular file, size 0, nlink 1, the effective uid and gid)
C10_StagedCreateIsNeverMissing ==
    [][\A t \in Threads, p \in Paths :
        (/\ Staged(p)
         /\ tree'[p] = Absent
         /\ mediafirefs_getattr(t, p)) =>
            /\ last'.ret = 0
            /\ last'.st = SynthStat]_vars

\* the request of the folder_create call that returned last, if one was sent
C18_Request == last.calls[1].arg

\* C18: folder_create(parent, name) called on a connection sends a request
\* without parent_key exactly when parent is NULL or equals "myfiles", for
\* every other parent it sends parent_key = parent, and when name is NULL or
\* empty it returns -1 and sends no request
C18_RootExactlyForNilOrMyfiles ==
    (last.op = "mfconn_api_folder_create" /\ last.data[1] # NULL) =>
        LET parent == last.data[2]
            name == last.data[3]
        IN  IF name = NULL \/ name = <<>>
            THEN last.ret = -1 /\ last.calls = <<>>
            ELSE /\ Len(last.calls) = 1
                 /\ C18_Request[Len(C18_Request) - 1] = <<"foldername", name>>
                 /\ IF parent = NULL \/ parent = myfiles
                    THEN Len(C18_Request) = 2
                    ELSE /\ Len(C18_Request) = 3
                         /\ C18_Request[1] = <<"parent_key", parent>>

\* folder_create was called with "myfiles" and sent a request for the root
C18_MyfilesIsRoot ==
    /\ last.op = "mfconn_api_folder_create"
    /\ last.data[1] # NULL
    /\ last.data[2] = myfiles
    /\ Len(last.calls) = 1
    /\ Len(C18_Request) = 2

\* the bytes written through the handle that created p, also after its release
C11_Written(p) == staging[<<p, "tmp">>]

\* C11: after create(P), a write of b at offset 0, a successful release and an
\* open(P) read-only, a read of len(b) bytes at offset 0 through the read-only
\* handle returns b, and a getattr(P) that finds P in the catalog reports the
\* size len(b)
C11_RoundTrip ==
    /\ last.op = "write" =>
            SubSeq(C11_Written(last.path), 1, Len(last.data)) = last.data
    /\ (last.op = "read" /\ last.log = "cache") =>
            last.data = C11_Written(last.path)
    /\ (last.op = "getattr" /\ last.ret = 0 /\ last.st # SynthStat) =>
            last.st.st_size = Len(C11_Written(last.path))

\* a read through a read-only handle returned the two bytes that were written
\* through the handle of create, and the account holds them
C11_ReadBack ==
    /\ last.op = "read"
    /\ last.log = "cache"
    /\ last.path = "/f"
    /\ last.data = <<"a", "b">>
    /\ remote_data["/f"] = <<"a", "b">>
    /\ OutstandingReadonly("/f") = 1

\* a step of mkdir on a path whose parent is not the root and does not
\* resolve in the folder tree
C12_UnresolvedParent ==
    /\ last'.op = "mkdir"
    /\ th' = th
    /\ strrchr_slash(mkdir_strip(last'.data)) # 0
    /\ mkdir_dirname(last'.data) # <<>>
    /\ folder_tree_path_get_key(tree_folders, mkdir_dirname(last'.data)) = NULL

\* C12: a mkdir whose parent is not the root and does not resolve returns
\* ENOENT, issues no folder_create call and creates no folder
C12_UnresolvedParentIsNotFound ==
    [][C12_UnresolvedParent =>
        /\ last'.ret = -ENOENT
        /\ last'.calls = <<>>
        /\ remote_folders' = remote_folders]_vars

\* a step in which mkdir, rmdir or unlink returns 0
C13_MutationReturns0 ==
    /\ last'.op \in {"mkdir", "rmdir", "unlink"}
    /\ th' = th
    /\ last'.ret = 0

\* a step in which the release of a handle that is not read-only returns 0
C13_ReleaseReturns0 ==
    /\ th[Single].pc \in {"upload_poll", "upload_patch"}
    /\ th'[Single].pc = "idle"
    /\ last'.ret = 0

\* the call that changes the account, by callback
C13_RemoteCall ==
    [mkdir |-> {"mfconn_api_folder_create"},
     rmdir |-> {"mfconn_api_folder_delete"},
     unlink |-> {"mfconn_api_file_delete"},
     release |-> {"mfconn_api_upload_simple", "folder_tree_upload_patch"}]

\* the callback that returns in this step made the call that changes the
\* account, the account changed, and then one forced update was invoked
C13_MutationThenOneForcedUpdate ==
    /\ Len(last'.calls) = 2
    /\ last'.calls[1].fn \in C13_RemoteCall[last'.op]
    /\ last'.calls[2] = UpdateCall(TRUE)
    /\ last'.op = "mkdir" => \E f \in remote_folders' : f \notin remote_folders
    /\ last'.op = "rmdir" => last'.data \notin remote_folders'
    /\ last'.op = "unlink" => remote'[last'.path] = Absent
    /\ last'.op = "release" =>
            /\ remote'[last'.path] # Absent
            /\ remote_data'[last'.path] \in
                    {staging[<<last'.path, "tmp">>],
                     staging[<<last'.path, "cache">>]}

\* the catalog is in step with the account
C13_CatalogInStep == tree = remote /\ tree_folders = remote_folders

C14_Unresolved ==
    /\ th' = th
    /\ \/ /\ last'.op = "rmdir"
          /\ folder_tree_path_get_key(tree_folders, last'.data) = NULL
       \/ /\ last'.op = "unlink"
          /\ folder_tree_path_get_key_file(tree, last'.path) = NULL

\* C14: rmdir and unlink on a path that does not resolve to a key return
\* ENOENT, make no delete call and invoke no update
C14_UnresolvedIsNotFound ==
    [][C14_Unresolved =>
        /\ last'.ret = -ENOENT
        /\ last'.calls = <<>>
        /\ UNCHANGED <<tree, remote, folders>>]_vars

\* unlink of a path the catalog does not hold returned ENOENT
C14_UnlinkMissing ==
    /\ last.op = "unlink"
    /\ last.path = "/f"
    /\ tree["/f"] = Absent
    /\ last.ret = -ENOENT
    /\ last.calls = <<>>

\* a step of mkdir, rmdir or unlink in which the remote call failed: the
\* callback wrote its "unsuccessful" line (line 222, line 258, line 293)
C15_RemoteCallFailed ==
    /\ last'.op \in {"mkdir", "rmdir", "unlink"}
    /\ th' = th
    /\ last'.log \in {"mfconn_api_folder_create unsuccessful",
                      "mfconn_api_file_create unsuccessful"}

\* C15: when the remote call of mkdir, rmdir or unlink fails, the callback
\* returns EAGAIN after that one call, invokes no update, and leaves the
\* catalog and both multisets of open paths as they were
C15_FailedMutationIsEAGAIN ==
    [][C15_RemoteCallFailed =>
        /\ last'.ret = -EAGAIN
        /\ Len(last'.calls) = 1
        /\ last'.calls[1].fn \in C13_RemoteCall[last'.op]
        /\ UNCHANGED <<tree, tree_folders, sv_readonlyfiles,
                       sv_writefiles>>]_vars

\* rmdir of a folder of the catalog returned EAGAIN while a file was open
C15_RmdirFailed ==
    /\ last.op = "rmdir"
    /\ last.data = <<"/", "d">>
    /\ last.ret = -EAGAIN
    /\ Len(last.calls) = 1
    /\ <<"/", "d">> \in tree_folders
    /\ \E p \in Paths : stringv_mem(sv_readonlyfiles, p)

\* C16: the release of a handle of create whose upload_simple succeeded stops
\* polling and returns in the round in which the poll reports status 99, fails
\* or reports a file error other than 0; it polls on only after a round that
\* reported neither
C16_PollStopsOnError ==
    [][\A t \in Threads :
        (th[t].pc = "upload_poll" /\ th'[t] # th[t]) =>
            \/ th'[t].pc = "idle"
            \/ th'[t].pc = "upload_poll" /\ th'[t].fileerror = 0]_vars

\* the updates among the calls of the callback that returned last
C17_Updates ==
    {i \in 1..Len(last.calls) : last.calls[i].fn = "folder_tree_update"}

\* C17: every getattr invokes update(force = false) exactly once and looks the
\* path up in the catalog as that update left it; no other callback invokes an
\* update that is not forced: mkdir, rmdir, unlink and release invoke update
\* with force = true only, and readdir, open, create, read and write invoke
\* no update
C17_OnlyGetattrUpdatesUnforced ==
    /\ last.op = "getattr" =>
            /\ last.calls = <<UpdateCall(FALSE)>>
            /\ last.st # SynthStat =>
                    /\ last.ret = folder_tree_getattr_ret(tree, last.path)
                    /\ last.st = folder_tree_getattr_stat(tree, last.path)
    /\ last.op \in {"mkdir", "rmdir", "unlink", "release"} =>
            \A i \in C17_Updates : last.calls[i].arg = TRUE
    /\ last.op \in {"readdir", "open", "create", "read", "write"} =>
            C17_Updates = {}

\* getattr found a file that was created and uploaded since the mount, after
\* its one update, which was not forced
C17_GetattrSeesUpload ==
    /\ last.op = "getattr"
    /\ last.path = "/f"
    /\ last.ret = 0
    /\ last.st # SynthStat
    /\ last.calls = <<UpdateCall(FALSE)>>

\* a step in which folder_tree_open_file returns to the open of Single
C19_OpenFileReturns ==
    th[Single].pc = "open_file" /\ th'[Single].pc = "idle"

\* C19: open(P) calls folder_tree_open_file with update set exactly when P is
\* in neither sv_readonlyfiles nor sv_writefiles; when a handle on P is
\* outstanding, an open that returns 0 passed update = false and left the
\* staging files as they were
C19_FetchExactlyWhenNotOpen ==
    [][C19_OpenFileReturns =>
        LET path == th[Single].path
        IN  /\ last'.update = (/\ ~stringv_mem(sv_readonlyfiles, path)
                               /\ ~stringv_mem(sv_writefiles, path))
            /\ (last'.ret = 0 /\ Outstanding(path) > 0) =>
                    /\ last'.update = FALSE
                    /\ staging' = staging]_vars

\* a read-only open beside a handle that wrote a byte the account does not
\* hold: the byte is still in the staging file
C19_ReusedStaging ==
    /\ last.op = "open"
    /\ last.path = "/g"
    /\ last.ret = 0
    /\ last.update = FALSE
    /\ OutstandingWritable("/g") = 1
    /\ OutstandingReadonly("/g") = 1
    /\ staging[<<"/g", "cache">>] = <<"a">>
    /\ remote_data["/g"] = <<>>

\* p is held by the handle of its create and by no other, and the catalog
\* does not hold it
C20_OnlyLocalNew(p) ==
    /\ openfiles[OpenFile(p, FALSE, TRUE)] > 0
    /\ stringv_mem(sv_writefiles, p)
    /\ tree[p] = Absent

\* a step in which an open of p returns: refused at line 338, or after
\* folder_tree_open_file
C20_OpenReturns(p) ==
    \/ /\ th[Single].pc = "idle"
       /\ th' = th
       /\ last'.op = "open"
       /\ last'.path = p
    \/ /\ th[Single].pc = "open_file"
       /\ th'[Single].pc = "idle"
       /\ th[Single].path = p

\* a step of read or write on p
C20_ReadOrWrite(p) ==
    /\ last'.op \in {"read", "write"}
    /\ th' = th
    /\ last'.path = p

\* C20: while P is held only by the handle of its create and is absent from
\* the catalog, every open(P) returns an error, allocates no handle and
\* changes neither string vector, and reads and writes through the creating
\* handle go to its staging file
C20_LocalNewIsNotOpenable ==
    [][\A p \in Paths : C20_OnlyLocalNew(p) =>
        /\ C20_OpenReturns(p) =>
                /\ last'.ret < 0
                /\ UNCHANGED <<sv_readonlyfiles, sv_writefiles, openfiles,
                               nfds>>
        /\ C20_ReadOrWrite(p) =>
                /\ last'.ret = Len(last'.data)
                /\ last'.op = "read" =>
                        last'.data = pread(staging[<<p, "tmp">>], MaxSize, 0)
                /\ last'.op = "write" =>
                        /\ last'.ret > 0
                        /\ staging'[<<p, "tmp">>] =
                                pwrite(staging[<<p, "tmp">>], last'.data, 0)
                /\ C20_OnlyLocalNew(p)']_vars

\* a read-only open of a created file was turned down after a byte was
\* written through the creating handle, which is still there
C20_OpenTurnedDown ==
    /\ last.op = "open"
    /\ last.path = "/f"
    /\ last.flags = O_RDONLY
    /\ last.ret = -ENOENT
    /\ C20_OnlyLocalNew("/f")
    /\ staging[<<"/f", "tmp">>] = <<"a">>

\* C21: while the release of a handle that was opened writable on an existing
\* file is waiting for folder_tree_upload_patch, the path is still in
\* sv_writefiles; its entry is removed only after the upload has returned
C21_HeldOpenDuringPatch ==
    \A t \in Threads :
        th[t].pc = "upload_patch" => stringv_mem(sv_writefiles, th[t].path)

\* C22: of two opens of one path that are not read-only and run on different
\* threads, at most one returns 0: an open whose folder_tree_open_file returns
\* after the other open entered the path in sv_writefiles is turned down
C22_SecondWriterTurnedDown ==
    [][\A t \in Threads :
        (/\ th[t].pc = "open_file"
         /\ th'[t].pc = "idle"
         /\ ~open_is_readonly(th[t].flags)
         /\ stringv_mem(sv_writefiles, th[t].path)) =>
            /\ last'.ret < 0
            /\ sv_writefiles' = sv_writefiles]_vars

\* C23: when the host releases each handle once and creates only paths that
\* getattr reported as not found, no release reaches one of the branches that
\* end the process (read-only entry not found, writefiles entry not found,
\* writefiles entry found more than once)
C23_ReleaseNeverFatal ==
    \A t \in Threads : th[t].pc # "exit"

\* a step in which create, read or write returns, or an open is refused
C24_Returns(op) ==
    /\ th[Single].pc = "idle"
    /\ th' = th
    /\ last'.op = op

\* a step in which an open returns: refused, or after folder_tree_open_file
C24_OpenReturns ==
    \/ C24_Returns("open")
    \/ th[Single].pc = "open_file"

\* a step of an open: up to folder_tree_open_file, or its return
C24_OpenStep ==
    \/ th'[Single].pc = "open_file"
    \/ C24_OpenReturns

\* a step in which an upload begins: release is about to call
\* mfconn_api_upload_simple or folder_tree_upload_patch
C24_UploadStarts ==
    /\ th[Single].pc \notin {"upload_simple", "upload_patch"}
    /\ th'[Single].pc \in {"upload_simple", "upload_patch"}

\* a step that takes the handle openfile from the host
C24_Releases(openfile) == openfiles'[openfile] = openfiles[openfile] - 1

\* the catalog and the account
C24_Remote == <<tree, remote, folders, remote_data, uploaded>>

\* C24: create, open, read and write make no remote call that changes the
\* account and no update, and leave the catalog as it is; read and write leave
\* both string vectors as they are; an upload or patch begins only in the
\* release of a handle that is not read-only; the release of a read-only
\* handle returns 0 without a remote call and without an update
C24_UploadsOnlyOnRelease ==
    [][/\ (C24_Returns("create") \/ C24_OpenStep \/ C24_Returns("read")
                \/ C24_Returns("write")) =>
            UNCHANGED C24_Remote
       /\ (C24_Returns("create") \/ C24_OpenReturns \/ C24_Returns("read")
                \/ C24_Returns("write")) =>
            last'.calls = <<>>
       /\ (C24_Returns("read") \/ C24_Returns("write")) =>
            UNCHANGED <<sv_readonlyfiles, sv_writefiles, openfiles>>
       /\ C24_UploadStarts =>
            \E openfile \in OpenFiles :
                ~openfile.is_readonly /\ C24_Releases(openfile)
       /\ \A openfile \in OpenFiles :
            (openfile.is_readonly /\ C24_Releases(openfile)) =>
                /\ th' = th
                /\ last'.op = "release"
                /\ last'.ret = 0
                /\ last'.calls = <<>>
                /\ UNCHANGED C24_Remote]_vars

\* a read-only handle was released while a byte written through another
\* handle on the path waits in the staging file: the account does not have it
C24_WrittenNotUploaded ==
    /\ last.op = "release"
    /\ last.path = "/g"
    /\ last.ret = 0
    /\ last.calls = <<>>
    /\ OutstandingWritable("/g") = 1
    /\ staging[<<"/g", "cache">>] = <<"a">>
    /\ remote_data["/g"] = <<>>

\* C25: file_set_key on a file returns 0 and stores the key exactly when the
\* key is not NULL and has 11 or 15 characters; otherwise it returns -1 and
\* the stored key is as before; file_get_key returns the stored key, which
\* after a call that returned 0 is the key of that call
C25_KeyStoredIffLength11Or15 ==
    [][/\ (last'.op = "file_set_key" /\ last'.data[1] # NULL) =>
            LET key == last'.data[2]
            IN  IF key # NULL /\ Len(key) \in {11, 15}
                THEN /\ last'.ret = 0
                     /\ CString(file'.quickkey) = key
                ELSE /\ last'.ret = -1
                     /\ file'.quickkey = file.quickkey
       /\ (last'.op = "file_get_key" /\ last'.data[1] # NULL) =>
            /\ last'.data[2] = CString(file.quickkey)
            /\ file' = file]_vars

\* file_get_key returned the key of 15 characters that file_set_key stored
C25_GotLongKey ==
    /\ last.op = "file_get_key"
    /\ last.data[1] # NULL
    /\ last.data[2] = Rep("a", 14) \o <<"b">>

\* C26: file_set_hash on a file with a hash of at least 32 characters returns
\* 0, and file_get_hash then returns that hash; with NULL or a shorter hash
\* it returns -1 and the stored hash is as before
C26_HashRoundTrip ==
    [][/\ (last'.op = "file_set_hash" /\ last'.data[1] # NULL) =>
            LET hash == last'.data[2]
            IN  IF hash # NULL /\ Len(hash) >= 32
                THEN /\ last'.ret = 0
                     /\ CString(file'.hash) = hash
                ELSE /\ last'.ret = -1
                     /\ file'.hash = file.hash
       /\ (last'.op = "file_get_hash" /\ last'.data[1] # NULL) =>
            /\ last'.data[2] = CString(file.hash)
            /\ file' = file]_vars
====
